---- MODULE Spec2Model ----
(***************************************************************************)
(* A model of the daily contributor bot: main() drives one run through    *)
(* GitManager.sync_with_upstream, ContentGenerator.generate_daily_content, *)
(* GitManager.commit_and_push and GitManager.push_logs_to_branch.  The    *)
(* working copy (remotes, heads, HEAD, commits, index, files) persists    *)
(* from one run of the process to the next.                               *)
(*                                                                         *)
(* Every call into git is a step whose outcome the environment chooses:   *)
(* it succeeds, or it raises GitCommandError, or (where the library does  *)
(* so) it raises another exception or reports the failure in its return   *)
(* value.                                                                  *)
(***************************************************************************)
EXTENDS Integers, Sequences, FiniteSets, TLC

\* ------------------------------------------------------------------ bounds

\* Number of runs of the process against the same working copy.
MaxRuns == 2

\* Number of calendar days (entries of Calendar) a run can fall on.
MaxDay == 2

\* Number of operations the environment lets fail in one behaviour (a failure
\* the state forces, such as a push with no origin, is not counted).
MaxFaults == 1

\* Number of text chunks a file content is written in (write_text_file).
MaxChunks == 2

\* ---------------------------------------------------------------- naming

Calendar ==
  << [y |-> 2025, m |-> 1,  d |-> 11],
     [y |-> 2025, m |-> 11, d |-> 1],
     [y |-> 2025, m |-> 10, d |-> 7],
     [y |-> 2026, m |-> 1,  d |-> 1],
     [y |-> 2025, m |-> 12, d |-> 1],
     [y |-> 2025, m |-> 1,  d |-> 21],
     [y |-> 2024, m |-> 2,  d |-> 29],
     [y |-> 2025, m |-> 12, d |-> 31] >>

Days == 1..MaxDay

\* Mutant: month and day are formatted without padding.
Pad2_NoPad(n) == ToString(n)

\* %m and %d of strftime: two digits
Pad2(n) == IF n < 10 THEN "0" \o ToString(n) ELSE ToString(n)

\* d.strftime("%Y%m%d")
iso_date_string(d) == ToString(d.y) \o Pad2(d.m) \o Pad2(d.d)

branch_name_for_date(d) == "feature/news-" \o iso_date_string(d)

digest_filename_for_date(d) == "digest_" \o iso_date_string(d) \o ".md"

\* Names the configuration supplies (REMOTE_UPSTREAM, LOG_BRANCH, NEWS_DIR).
remote_upstream == "upstream"
log_branch == "bot-logs"
news_dir == "news"
main_branch == "main"

\* os.path.relpath(file_path, working_tree_dir) of the digest of date d.
DigestRelpath(d) == news_dir \o "/" \o digest_filename_for_date(d)

UpstreamMainRef == remote_upstream \o "/" \o main_branch

\* The branch the fork is on when it has no local main.
DefaultBranch == "master"

FeatureBranches == { branch_name_for_date(Calendar[i]) : i \in Days }

\* ------------------------------------------------------------------ state

VARIABLES
  \* configuration (Config.__init__)
  fork_path,           \* FORK_PATH: "repo" a working copy, "bad" a path that is
                       \* none, "none" unset
  repo_url_alt,        \* TRUE iff owner and name are both configured
  enable_log_branch,
  \* the working copy and the repositories behind its remotes
  remotes,             \* names of the configured remotes
  heads,               \* local branches
  HEAD,                \* the branch checked out
  tip,                 \* local branch -> commit
  commits,             \* commit -> [parents, paths]
  index,               \* paths staged and not yet committed
  refs,                \* remote-tracking ref -> commit
  originHeads,         \* branch on origin -> commit
  upstreamMain,        \* commit of upstream's main, 0 when upstream has none
  \* files in and next to the working tree
  digests,             \* digest files present under news_dir
  sidecar,             \* content of branch_name.txt, "" when absent
  logsDir,             \* TRUE iff ./logs exists
  faults,              \* operations the environment has made fail so far
  \* the running process
  pc, run, today, exitCode, branch_name, file_path,
  \* observation of the current run
  trace,               \* the operations performed, in order
  logged,              \* the log records emitted: <<level, text>>
  \* what was there before the call under test (CheckoutSpec, WriteSpec)
  snap,
  \* write_text_file taken step by step (WriteSpec)
  disk,                \* path -> the chunks the file holds
  wcontent,            \* the content being written
  wdone                \* chunks of it written so far

gitVars == << remotes, heads, HEAD, tip, commits, index, refs, originHeads >>
envVars == << fork_path, repo_url_alt, enable_log_branch, upstreamMain, logsDir >>
fileVars == << digests, sidecar >>
procVars == << pc, run, today, exitCode, branch_name, file_path >>
obsVars == << trace, logged >>
auxVars == << snap, disk, wcontent, wdone >>

vars == << gitVars, envVars, fileVars, faults, procVars, obsVars, auxVars >>

\* ---------------------------------------------------------------- helpers

Ev(by, op, arg, res) == [by |-> by, op |-> op, arg |-> arg, res |-> res]

\* The outcomes of an operation the environment may still choose among S, and
\* the count of the failures it chose.
Choices(S) == IF "ok" \in S /\ faults >= MaxFaults THEN {"ok"} ELSE S

Charge(S, o) == faults' = IF "ok" \in S /\ o # "ok" THEN faults + 1 ELSE faults

RECURSIVE Ancestors(_)
\* The commits reachable from commit c, c included.
Ancestors(c) ==
  IF c = 0 THEN {}
  ELSE {c} \cup UNION { Ancestors(p) : p \in commits[c].parents }

\* The paths a commit's history holds.
PathsOf(c) == UNION { commits[a].paths : a \in Ancestors(c) }

\* The exit status of a process that has not ended.
Running == -1

NoSnap == [taken |-> FALSE]

\* The repository as it is now.
Shot == [ remotes |-> remotes, heads |-> heads, HEAD |-> HEAD, tip |-> tip,
          refs |-> refs, originHeads |-> originHeads, index |-> index,
          ncommits |-> Len(commits) ]

\* The repository is recorded as it is when a component of the run starts
\* ("sync", "publish", "logs") or reaches a point of it ("resolve").
Record(point) ==
  snap' = [ taken |-> TRUE,
            shots |-> IF snap.taken THEN (point :> Shot) @@ snap.shots
                      ELSE (point :> Shot) ]

Recorded(point) == snap.taken /\ point \in DOMAIN snap.shots
NoDisk == [p \in {} |-> << >>]

\* ------------------------------------------------------------------- Init

InitGit ==
  /\ commits = << [parents |-> {}, paths |-> { << "README.md" >> }],
                  [parents |-> {1}, paths |-> { << "CHANGES.md" >> }] >>
  /\ upstreamMain \in {0, 2}
  /\ remotes \in SUBSET {"origin", remote_upstream}
  /\ \E b \in {main_branch, DefaultBranch} :
       /\ heads = {b}
       /\ HEAD = b
       /\ tip = [h \in {b} |-> 1]
       /\ originHeads = IF "origin" \in remotes THEN [h \in {b} |-> 1]
                        ELSE [h \in {} |-> 0]
  /\ refs = [r \in {} |-> 0]
  /\ index = {}

InitRun ==
  /\ run = 1
  /\ today = 1
  /\ exitCode = Running
  /\ branch_name = ""
  /\ file_path = << >>
  /\ trace = << >>
  /\ logged = {}

InitAux ==
  /\ snap = NoSnap
  /\ disk = NoDisk
  /\ wcontent = << >>
  /\ wdone = 0

Init ==
  /\ fork_path \in {"repo", "bad", "none"}
  /\ repo_url_alt \in BOOLEAN
  /\ enable_log_branch \in BOOLEAN
  /\ InitGit
  /\ digests = {}
  /\ sidecar = ""
  /\ logsDir = TRUE
  /\ faults = 0
  /\ InitRun
  /\ pc = "init"
  /\ InitAux

\* ------------------------------------------------------------- exceptions

\* except GitCommandError (sync_with_upstream)
SyncCatches(exc) == exc = "GitCommandError"

\* Mutant: the archiver catches what sync catches, GitCommandError alone.
LogsCatches_GitOnly(exc) == exc = "GitCommandError"

\* except Exception (push_logs_to_branch)
LogsCatches(exc) == TRUE

\* except Exception (main)
MainCatches(exc) == TRUE

\* Mutant: main calls the archiver without testing config.enable_log_branch.
MainNext_AlwaysLogs(stage) ==
  CASE stage = "init"    -> "sync_remote"
    [] stage = "sync"    -> "gen_digest"
    [] stage = "gen"     -> "cp_checkout"
    [] stage = "publish" -> "logs_checkout"
    [] stage = "logs"    -> "finish"

\* The statement of main that follows each call.
MainNext(stage) ==
  CASE stage = "init"    -> "sync_remote"
    [] stage = "sync"    -> "gen_digest"
    [] stage = "gen"     -> "cp_checkout"
    [] stage = "publish" -> IF enable_log_branch THEN "logs_checkout" ELSE "finish"
    [] stage = "logs"    -> "finish"

\* An exception leaves a component: the component's own handler swallows it
\* and the call returns, or it unwinds to main's handler, which logs it and
\* exits with status 1.  evs are the operations of the step that raised.
Raise(by, exc, evs) ==
  LET swallowed == \/ by = "sync" /\ SyncCatches(exc)
                   \/ by = "logs" /\ LogsCatches(exc)
      own == CASE by = "sync" /\ swallowed ->
                    { << "warning", "Could not fully sync with upstream" >> }
               [] by = "logs" /\ swallowed ->
                    { << "warning", "Could not push logs branch" >> }
               [] by = "publish" /\ exc = "GitCommandError" ->
                    { << "exception", "Git operation failed" >> }
               [] by = "gen" /\ exc = "OSError" ->
                    { << "exception", "Failed to write digest file" >> }
               [] OTHER -> {}
  IN IF swallowed
     THEN /\ pc' = MainNext(by)
          /\ exitCode' = exitCode
          /\ trace' = trace \o evs \o << Ev(by, "return", "", "ok") >>
          /\ logged' = logged \cup own
     ELSE /\ MainCatches(exc)
          /\ pc' = "exit"
          /\ exitCode' = 1
          /\ trace' = trace \o evs \o << Ev(by, "raise", "", exc) >>
          /\ logged' = logged \cup own
                         \cup { << "exception", "Fatal error during workflow" >> }

\* A call returns normally to main.
Return(by, evs, logs) ==
  /\ pc' = MainNext(by)
  /\ exitCode' = exitCode
  /\ trace' = trace \o evs \o << Ev(by, "return", "", "ok") >>
  /\ logged' = logged \cup logs

\* A step of a component completes and the component goes on.
Step(next, evs, logs) ==
  /\ pc' = next
  /\ exitCode' = exitCode
  /\ trace' = trace \o evs
  /\ logged' = logged \cup logs

\* ------------------------------------------------------------------- main

\* Repo(config.fork_path).  A path that does not exist raises NoSuchPathError,
\* one that is no repository InvalidGitRepositoryError.  Repo(None) opens
\* $GIT_DIR or the current directory: it succeeds when the process was started
\* in a repository, and the working copy of the run is then that repository.
RepoOutcomes ==
  CASE fork_path = "repo" -> {"ok"}
    [] fork_path = "bad"  -> {"InvalidGitRepositoryError", "NoSuchPathError"}
    [] fork_path = "none" -> {"ok", "InvalidGitRepositoryError"}

\* GitManager(config, logger): Repo(config.fork_path); ContentGenerator(config, logger)
Construct ==
  /\ pc = "init"
  /\ \E o \in RepoOutcomes :
       IF o = "ok"
       THEN Step(MainNext("init"), << >>, {})
       ELSE /\ pc' = "exit"
            /\ exitCode' = 1
            /\ trace' = trace \o << Ev("init", "raise", "", o) >>
            /\ logged' = logged
                 \cup (IF o = "InvalidGitRepositoryError"
                       THEN { << "exception", "Invalid Git repository" >> } ELSE {})
                 \cup { << "exception", "Fatal error during workflow" >> }
  /\ UNCHANGED << gitVars, envVars, fileVars, faults, run, today, branch_name,
                  file_path, auxVars >>

\* logger.info("Workflow finished successfully."); the process ends with status 0
Finish ==
  /\ pc = "finish"
  /\ pc' = "exit"
  /\ exitCode' = 0
  /\ logged' = logged \cup { << "info", "Workflow finished successfully" >> }
  /\ UNCHANGED << gitVars, envVars, fileVars, faults, run, today, branch_name,
                  file_path, trace, auxVars >>

\* The process is started again, the same day or a later one, on the working
\* copy the previous run left.  setup_logger() creates ./logs.
StartRun ==
  /\ pc = "exit"
  /\ run < MaxRuns
  /\ run' = run + 1
  /\ today' \in { d \in Days : d >= today }
  /\ pc' = "init"
  /\ exitCode' = Running
  /\ branch_name' = ""
  /\ file_path' = << >>
  /\ trace' = << >>
  /\ logged' = {}
  /\ logsDir' = TRUE
  /\ snap' = NoSnap
  /\ UNCHANGED << gitVars, fork_path, repo_url_alt, enable_log_branch, upstreamMain,
                  fileVars, faults, disk, wcontent, wdone >>

\* -------------------------------------------------------- repository handle

\* The outcomes of _checkout_or_create_branch(name) the environment allows.
CocOutcomes(name) ==
  IF name \in heads THEN {"ok", "checkout_fails"}
  ELSE {"ok", "create_fails", "checkout_fails"}

\* Mutant: a missing branch is created and not checked out.
checkout_or_create_branch_NoCheckout(name, o) ==
  IF name \in heads
  THEN [ heads |-> heads,
         HEAD  |-> IF o = "ok" THEN name ELSE HEAD,
         tip   |-> tip,
         exc   |-> IF o = "ok" THEN "none" ELSE "GitCommandError",
         evs   |-> << [op |-> "checkout", arg |-> name,
                       res |-> IF o = "ok" THEN "ok" ELSE "GitCommandError"] >> ]
  ELSE IF o = "create_fails"
       THEN [ heads |-> heads, HEAD |-> HEAD, tip |-> tip,
              exc |-> "GitCommandError",
              evs |-> << [op |-> "create_head", arg |-> name,
                          res |-> "GitCommandError"] >> ]
       ELSE [ heads |-> heads \cup {name},
              HEAD  |-> HEAD,
              tip   |-> [h \in heads \cup {name} |->
                           IF h = name THEN tip[HEAD] ELSE tip[h]],
              exc   |-> "none",
              evs   |-> << [op |-> "create_head", arg |-> name, res |-> "ok"] >> ]

\* Mutant: a missing branch is created from main when there is a local main.
checkout_or_create_branch_FromMain(name, o) ==
  LET base == IF main_branch \in heads THEN tip[main_branch] ELSE tip[HEAD]
  IN IF name \in heads
     THEN [ heads |-> heads,
            HEAD  |-> IF o = "ok" THEN name ELSE HEAD,
            tip   |-> tip,
            exc   |-> IF o = "ok" THEN "none" ELSE "GitCommandError",
            evs   |-> << [op |-> "checkout", arg |-> name,
                          res |-> IF o = "ok" THEN "ok" ELSE "GitCommandError"] >> ]
     ELSE IF o = "create_fails"
          THEN [ heads |-> heads, HEAD |-> HEAD, tip |-> tip,
                 exc |-> "GitCommandError",
                 evs |-> << [op |-> "create_head", arg |-> name,
                             res |-> "GitCommandError"] >> ]
          ELSE [ heads |-> heads \cup {name},
                 HEAD  |-> IF o = "ok" THEN name ELSE HEAD,
                 tip   |-> [h \in heads \cup {name} |->
                              IF h = name THEN base ELSE tip[h]],
                 exc   |-> IF o = "ok" THEN "none" ELSE "GitCommandError",
                 evs   |-> << [op |-> "create_head", arg |-> name, res |-> "ok"],
                              [op |-> "checkout", arg |-> name,
                               res |-> IF o = "ok" THEN "ok" ELSE "GitCommandError"] >> ]

\* GitManager._checkout_or_create_branch(name) under outcome o: the heads, HEAD
\* and tips it leaves, the exception it raises and the operations it performed.
checkout_or_create_branch(name, o) ==
  IF name \in heads
  THEN \* self.repo.heads[name].checkout()
       [ heads |-> heads,
         HEAD  |-> IF o = "ok" THEN name ELSE HEAD,
         tip   |-> tip,
         exc   |-> IF o = "ok" THEN "none" ELSE "GitCommandError",
         evs   |-> << [op |-> "checkout", arg |-> name,
                       res |-> IF o = "ok" THEN "ok" ELSE "GitCommandError"] >> ]
  ELSE \* self.repo.create_head(name).checkout()
       IF o = "create_fails"
       THEN [ heads |-> heads, HEAD |-> HEAD, tip |-> tip,
              exc |-> "GitCommandError",
              evs |-> << [op |-> "create_head", arg |-> name,
                          res |-> "GitCommandError"] >> ]
       ELSE [ heads |-> heads \cup {name},
              HEAD  |-> IF o = "ok" THEN name ELSE HEAD,
              tip   |-> [h \in heads \cup {name} |->
                           IF h = name THEN tip[HEAD] ELSE tip[h]],
              exc   |-> IF o = "ok" THEN "none" ELSE "GitCommandError",
              evs   |-> << [op |-> "create_head", arg |-> name, res |-> "ok"],
                           [op |-> "checkout", arg |-> name,
                            res |-> IF o = "ok" THEN "ok" ELSE "GitCommandError"] >> ]

\* The operations of a component, each marked with the component.
By(by, evs) == [i \in 1..Len(evs) |-> Ev(by, evs[i].op, evs[i].arg, evs[i].res)]

\* Mutant: everything in the working tree is staged, the sidecar included.
IndexAdd_All(path) == index' = index \cup {path, << "branch_name.txt" >>}

\* Mutant: the path is not staged.
IndexAdd_Nothing(path) == index' = index

\* self.repo.index.add([path])
IndexAdd(path) == index' = index \cup {path}

\* self.repo.index.commit(message): the staged paths become a commit on HEAD.
IndexCommit ==
  /\ commits' = Append(commits, [parents |-> {tip[HEAD]}, paths |-> index])
  /\ tip' = [tip EXCEPT ![HEAD] = Len(commits) + 1]
  /\ index' = {}

\* origin accepts a push of branch b: b is new there or moves forward.
FastForward(b) ==
  \/ b \notin DOMAIN originHeads
  \/ originHeads[b] \in Ancestors(tip[b])

\* The outcomes of origin.push(b).  Remote.push raises GitCommandError when the
\* command fails outright; a push the remote rejects comes back in the returned
\* PushInfo (the ERROR flag), and the callers here discard the return value.
PushOutcomes(b) ==
  (IF FastForward(b) THEN {"ok"} ELSE {}) \cup {"rejected", "GitCommandError"}

\* origin.push(b), accepted
PushAccepted(b) ==
  originHeads' = [h \in DOMAIN originHeads \cup {b} |->
                    IF h = b THEN tip[b] ELSE originHeads[h]]

\* os.path.relpath(path, base), for a path under base
relpath(path, base) == SubSeq(path, Len(base) + 1, Len(path))

\* self.repo.working_tree_dir, which is config.fork_path
working_tree_dir == << "fork" >>

\* os.path.join(os.getcwd(), "logs"), for a process started in the working copy
logs_dir == working_tree_dir \o << "logs" >>

\* ------------------------------------------------------- sync_with_upstream

\* repo.create_remote(name, url).  With no URL (repo_url_alt is None) it never
\* succeeds: the library raises TypeError from Git.polish_url(None), or, where
\* it passes the arguments on, git fails on "remote add <name>".
CreateRemoteOutcomes ==
  IF repo_url_alt THEN {"ok", "GitCommandError"} ELSE {"TypeError", "GitCommandError"}

\* upstream = self._get_remote(...); if upstream is None: create_remote(...)
SyncRemote ==
  /\ pc = "sync_remote"
  /\ IF remote_upstream \in remotes
     THEN /\ Step("sync_fetch", << >>, {})
          /\ UNCHANGED << remotes, faults >>
     ELSE \E o \in Choices(CreateRemoteOutcomes) :
            /\ Charge(CreateRemoteOutcomes, o)
            /\ LET ev == << Ev("sync", "create_remote", remote_upstream, o) >>
               IN IF o = "ok"
                  THEN /\ remotes' = remotes \cup {remote_upstream}
                       /\ Step("sync_fetch", ev, { << "info", "Added upstream remote" >> })
                  ELSE /\ Raise("sync", o, ev)
                       /\ UNCHANGED remotes
  /\ Record("sync")
  /\ UNCHANGED << heads, HEAD, tip, commits, index, refs, originHeads, envVars,
                  fileVars, run, today, branch_name, file_path, disk, wcontent, wdone >>

\* Mutant: a failed fetch is passed over and sync goes on to resolve main.
SyncFetch_ResolvesAnyway ==
  /\ pc = "sync_fetch"
  /\ \E o \in Choices({"ok", "GitCommandError"}) :
       /\ Charge({"ok", "GitCommandError"}, o)
       /\ refs' = IF upstreamMain = 0 \/ o # "ok" THEN refs
                  ELSE [r \in DOMAIN refs \cup {UpstreamMainRef} |-> upstreamMain]
       /\ Step("sync_resolve", << Ev("sync", "fetch", remote_upstream, o) >>, {})
  /\ UNCHANGED << remotes, heads, HEAD, tip, commits, index, originHeads, envVars,
                  fileVars, run, today, branch_name, file_path, auxVars >>

\* upstream.fetch()
SyncFetch ==
  /\ pc = "sync_fetch"
  /\ \E o \in Choices({"ok", "GitCommandError"}) :
       /\ Charge({"ok", "GitCommandError"}, o)
       /\ LET ev == << Ev("sync", "fetch", remote_upstream, o) >>
          IN IF o = "ok"
             THEN /\ refs' = IF upstreamMain = 0 THEN refs
                             ELSE [r \in DOMAIN refs \cup {UpstreamMainRef} |-> upstreamMain]
                  /\ Step("sync_resolve", ev, {})
             ELSE /\ Raise("sync", o, ev)
                  /\ UNCHANGED refs
  /\ UNCHANGED << remotes, heads, HEAD, tip, commits, index, originHeads, envVars,
                  fileVars, run, today, branch_name, file_path, auxVars >>

\* Mutant: a missing main is created from HEAD even when <upstream>/main exists.
ResolveMain_IgnoresUpstreamRef(o) ==
  IF main_branch \in heads
  THEN [ heads |-> heads,
         HEAD  |-> IF o = "ok" THEN main_branch ELSE HEAD,
         tip   |-> tip,
         exc   |-> IF o = "ok" THEN "none" ELSE "GitCommandError",
         logs  |-> {},
         evs   |-> << [op |-> "checkout", arg |-> main_branch,
                       res |-> IF o = "ok" THEN "ok" ELSE "GitCommandError"] >> ]
  ELSE LET r == checkout_or_create_branch(main_branch, o)
       IN [ heads |-> r.heads, HEAD |-> r.HEAD, tip |-> r.tip, exc |-> r.exc,
            logs |-> IF r.exc = "none"
                     THEN { << "warning", "Created 'main' from current HEAD" >> }
                     ELSE {},
            evs |-> r.evs ]

\* The three ways sync_with_upstream resolves local main, under outcome o.
ResolveMain(o) ==
  IF main_branch \in heads
  THEN \* self.repo.git.checkout(main_branch)
       [ heads |-> heads,
         HEAD  |-> IF o = "ok" THEN main_branch ELSE HEAD,
         tip   |-> tip,
         exc   |-> IF o = "ok" THEN "none" ELSE "GitCommandError",
         logs  |-> {},
         evs   |-> << [op |-> "checkout", arg |-> main_branch,
                       res |-> IF o = "ok" THEN "ok" ELSE "GitCommandError"] >> ]
  ELSE IF UpstreamMainRef \in DOMAIN refs
  THEN \* self.repo.git.checkout("-b", main_branch, "<upstream>/main")
       IF o = "ok"
       THEN [ heads |-> heads \cup {main_branch},
              HEAD  |-> main_branch,
              tip   |-> [h \in heads \cup {main_branch} |->
                           IF h = main_branch THEN refs[UpstreamMainRef] ELSE tip[h]],
              exc   |-> "none",
              logs  |-> {},
              evs   |-> << [op |-> "checkout_b", arg |-> UpstreamMainRef, res |-> "ok"] >> ]
       ELSE [ heads |-> heads, HEAD |-> HEAD, tip |-> tip,
              exc |-> "GitCommandError",
              logs |-> {},
              evs |-> << [op |-> "checkout_b", arg |-> UpstreamMainRef,
                          res |-> "GitCommandError"] >> ]
  ELSE \* self.repo.create_head(main_branch).checkout(); logger.warning(...)
       LET r == checkout_or_create_branch(main_branch, o)
       IN [ heads |-> r.heads, HEAD |-> r.HEAD, tip |-> r.tip, exc |-> r.exc,
            logs |-> IF r.exc = "none"
                     THEN { << "warning", "Created 'main' from current HEAD" >> }
                     ELSE {},
            evs |-> r.evs ]

ResolveOutcomes ==
  IF main_branch \in heads \/ UpstreamMainRef \in DOMAIN refs
  THEN {"ok", "checkout_fails"}
  ELSE {"ok", "create_fails", "checkout_fails"}

SyncResolve ==
  /\ pc = "sync_resolve"
  /\ \E o \in Choices(ResolveOutcomes) :
       /\ Charge(ResolveOutcomes, o)
       /\ LET r == ResolveMain(o)
          IN /\ heads' = r.heads
             /\ HEAD' = r.HEAD
             /\ tip' = r.tip
             /\ IF r.exc = "none"
                THEN Step("sync_pull", By("sync", r.evs), r.logs)
                ELSE Raise("sync", r.exc, By("sync", r.evs))
  /\ Record("resolve")
  /\ UNCHANGED << remotes, commits, index, refs, originHeads, envVars,
                  fileVars, run, today, branch_name, file_path, disk, wcontent, wdone >>

\* git pull <upstream> main, merged into the branch checked out
PullMerge ==
  LET cur == tip[HEAD]
  IN IF upstreamMain \in Ancestors(cur)
     THEN UNCHANGED << tip, commits >>
     ELSE IF cur \in Ancestors(upstreamMain)
     THEN /\ tip' = [tip EXCEPT ![HEAD] = upstreamMain]
          /\ UNCHANGED commits
     ELSE /\ commits' = Append(commits, [parents |-> {cur, upstreamMain}, paths |-> {}])
          /\ tip' = [tip EXCEPT ![HEAD] = Len(commits) + 1]

\* self.repo.git.pull(remote_upstream, main_branch); logger.info(...); return
SyncPull ==
  /\ pc = "sync_pull"
  /\ \E o \in Choices((IF upstreamMain = 0 THEN {} ELSE {"ok"}) \cup {"GitCommandError"}) :
       /\ Charge((IF upstreamMain = 0 THEN {} ELSE {"ok"}) \cup {"GitCommandError"}, o)
       /\ LET ev == << Ev("sync", "pull", main_branch, o) >>
          IN IF o = "ok"
             THEN /\ PullMerge
                  /\ Return("sync", ev, { << "info", "Synchronized fork with upstream" >> })
             ELSE /\ Raise("sync", o, ev)
                  /\ UNCHANGED << tip, commits >>
  /\ UNCHANGED << remotes, heads, HEAD, index, refs, originHeads, envVars,
                  fileVars, run, today, branch_name, file_path, auxVars >>

\* --------------------------------------------------- generate_daily_content

\* branch_name, filename, file_path are computed; write_text_file(file_path, content).
\* os.path.join(self.config.fork_path, ...) raises TypeError when fork_path is None.
GenDigest ==
  /\ pc = "gen_digest"
  /\ IF fork_path = "none"
     THEN /\ Raise("gen", "TypeError", << Ev("gen", "join", "fork_path", "TypeError") >>)
          /\ UNCHANGED << branch_name, file_path, digests, faults >>
     ELSE /\ branch_name' = branch_name_for_date(Calendar[today])
          /\ file_path' = working_tree_dir \o << news_dir, digest_filename_for_date(Calendar[today]) >>
          /\ \E o \in Choices({"ok", "OSError"}) :
               /\ Charge({"ok", "OSError"}, o)
               /\ LET ev == << Ev("gen", "write_digest", digest_filename_for_date(Calendar[today]), o) >>
                  IN IF o = "ok"
                     THEN /\ digests' = digests \cup { digest_filename_for_date(Calendar[today]) }
                          /\ Step("gen_sidecar", ev, { << "info", "Generated content" >> })
                     ELSE /\ Raise("gen", o, ev)
                          /\ UNCHANGED digests
  /\ UNCHANGED << gitVars, envVars, sidecar, run, today, auxVars >>

\* Mutant: the sidecar is written with the digest's file name.
GenSidecar_WrongContent ==
  /\ pc = "gen_sidecar"
  /\ \E o \in Choices({"ok", "OSError"}) :
       /\ Charge({"ok", "OSError"}, o)
       /\ LET ev == << Ev("gen", "write_sidecar", branch_name, o) >>
          IN IF o = "ok"
             THEN /\ sidecar' = file_path[Len(file_path)]
                  /\ Return("gen", ev, {})
             ELSE /\ UNCHANGED sidecar
                  /\ Return("gen", ev, { << "exception", "Could not persist branch_name.txt" >> })
  /\ UNCHANGED << gitVars, envVars, digests, run, today, branch_name, file_path, auxVars >>

\* Mutant: a failed write of branch_name.txt is raised like that of the digest.
GenSidecar_Fatal ==
  /\ pc = "gen_sidecar"
  /\ \E o \in Choices({"ok", "OSError"}) :
       /\ Charge({"ok", "OSError"}, o)
       /\ LET ev == << Ev("gen", "write_sidecar", branch_name, o) >>
          IN IF o = "ok"
             THEN /\ sidecar' = branch_name
                  /\ Return("gen", ev, {})
             ELSE /\ UNCHANGED sidecar
                  /\ Raise("gen", o, ev)
  /\ UNCHANGED << gitVars, envVars, digests, run, today, branch_name, file_path, auxVars >>

\* write_text_file(branch_file_path, branch_name), best-effort; return
GenSidecar ==
  /\ pc = "gen_sidecar"
  /\ \E o \in Choices({"ok", "OSError"}) :
       /\ Charge({"ok", "OSError"}, o)
       /\ LET ev == << Ev("gen", "write_sidecar", branch_name, o) >>
          IN IF o = "ok"
             THEN /\ sidecar' = branch_name
                  /\ Return("gen", ev, {})
             ELSE /\ UNCHANGED sidecar
                  /\ Return("gen", ev, { << "exception", "Could not persist branch_name.txt" >> })
  /\ UNCHANGED << gitVars, envVars, digests, run, today, branch_name, file_path, auxVars >>

\* ------------------------------------------------------------ commit_and_push

\* Mutant: commit_and_push without its index.commit statement.
PublishNext_NoCommit(step) ==
  CASE step = "cp_checkout" -> "cp_add"
    [] step = "cp_add"      -> "cp_remote"
    [] step = "cp_commit"   -> "cp_remote"
    [] step = "cp_remote"   -> "cp_push"

\* The statement of commit_and_push that follows each statement.
PublishNext(step) ==
  CASE step = "cp_checkout" -> "cp_add"
    [] step = "cp_add"      -> "cp_commit"
    [] step = "cp_commit"   -> "cp_remote"
    [] step = "cp_remote"   -> "cp_push"

\* self._checkout_or_create_branch(branch_name)
CpCheckout ==
  /\ pc = "cp_checkout"
  /\ \E o \in Choices(CocOutcomes(branch_name)) :
       /\ Charge(CocOutcomes(branch_name), o)
       /\ LET r == checkout_or_create_branch(branch_name, o)
          IN /\ heads' = r.heads
             /\ HEAD' = r.HEAD
             /\ tip' = r.tip
             /\ IF r.exc = "none"
                THEN Step(PublishNext("cp_checkout"), By("publish", r.evs), {})
                ELSE Raise("publish", r.exc, By("publish", r.evs))
  /\ Record("publish")
  /\ UNCHANGED << remotes, commits, index, refs, originHeads, envVars,
                  fileVars, run, today, branch_name, file_path, disk, wcontent, wdone >>

\* relpath = os.path.relpath(file_path, working_tree_dir); self.repo.index.add([relpath])
CpAdd ==
  /\ pc = "cp_add"
  /\ \E o \in Choices({"ok", "OSError"}) :
       /\ Charge({"ok", "OSError"}, o)
       /\ LET path == relpath(file_path, working_tree_dir)
              ev == << Ev("publish", "add", path, o) >>
          IN IF o = "ok"
             THEN /\ IndexAdd(path)
                  /\ Step(PublishNext("cp_add"), ev, {})
             ELSE /\ Raise("publish", o, ev)
                  /\ UNCHANGED index
  /\ UNCHANGED << remotes, heads, HEAD, tip, commits, refs, originHeads, envVars,
                  fileVars, run, today, branch_name, file_path, auxVars >>

\* self.repo.index.commit(commit_message)
CpCommit ==
  /\ pc = "cp_commit"
  /\ \E o \in Choices({"ok", "HookExecutionError"}) :
       /\ Charge({"ok", "HookExecutionError"}, o)
       /\ LET ev == << Ev("publish", "commit", HEAD, o) >>
          IN IF o = "ok"
             THEN /\ IndexCommit
                  /\ Step(PublishNext("cp_commit"), ev, {})
             ELSE /\ Raise("publish", o, ev)
                  /\ UNCHANGED << tip, commits, index >>
  /\ UNCHANGED << remotes, heads, HEAD, refs, originHeads, envVars,
                  fileVars, run, today, branch_name, file_path, auxVars >>

\* origin = self.repo.remote("origin"), ValueError when there is none
CpRemote ==
  /\ pc = "cp_remote"
  /\ IF "origin" \in remotes
     THEN Step(PublishNext("cp_remote"), << Ev("publish", "remote", "origin", "ok") >>, {})
     ELSE Raise("publish", "ValueError", << Ev("publish", "remote", "origin", "ValueError") >>)
  /\ UNCHANGED << gitVars, envVars, fileVars, faults, run, today, branch_name, file_path, auxVars >>

\* Mutant: a push that raises takes the commit back off the feature branch and
\* returns HEAD to the branch publish started on.
CpPush_RollsBack ==
  /\ pc = "cp_push"
  /\ \E o \in Choices(PushOutcomes(branch_name)) :
       /\ Charge(PushOutcomes(branch_name), o)
       /\ LET ev == << Ev("publish", "push", branch_name, o) >>
          IN CASE o = "ok" ->
                    /\ PushAccepted(branch_name)
                    /\ UNCHANGED << HEAD, tip >>
                    /\ Return("publish", ev, { << "info", "Pushed branch to origin" >>,
                                               << "info", "Content branch created and pushed" >> })
               [] o = "rejected" ->
                    /\ UNCHANGED << originHeads, HEAD, tip >>
                    /\ Return("publish", ev, { << "info", "Pushed branch to origin" >>,
                                               << "info", "Content branch created and pushed" >> })
               [] OTHER ->
                    /\ UNCHANGED originHeads
                    /\ HEAD' = snap.shots["publish"].HEAD
                    /\ tip' = [tip EXCEPT ![branch_name] =
                                 CHOOSE c \in commits[tip[branch_name]].parents : TRUE]
                    /\ Raise("publish", o, ev)
  /\ UNCHANGED << remotes, heads, commits, index, refs, envVars,
                  fileVars, run, today, branch_name, file_path, auxVars >>

\* origin.push(branch_name); logger.info(...); return, and main logs the branch
CpPush ==
  /\ pc = "cp_push"
  /\ \E o \in Choices(PushOutcomes(branch_name)) :
       /\ Charge(PushOutcomes(branch_name), o)
       /\ LET ev == << Ev("publish", "push", branch_name, o) >>
          IN CASE o = "ok" ->
                    /\ PushAccepted(branch_name)
                    /\ Return("publish", ev, { << "info", "Pushed branch to origin" >>,
                                               << "info", "Content branch created and pushed" >> })
               [] o = "rejected" ->
                    /\ UNCHANGED originHeads
                    /\ Return("publish", ev, { << "info", "Pushed branch to origin" >>,
                                               << "info", "Content branch created and pushed" >> })
               [] OTHER ->
                    /\ UNCHANGED originHeads
                    /\ Raise("publish", o, ev)
  /\ UNCHANGED << remotes, heads, HEAD, tip, commits, index, refs, envVars,
                  fileVars, run, today, branch_name, file_path, auxVars >>

\* ------------------------------------------------------- push_logs_to_branch

\* Mutant: the archiver creates a missing log branch from main.
LogsCheckout_FromMain ==
  /\ pc = "logs_checkout"
  /\ \E o \in Choices(CocOutcomes(log_branch)) :
       /\ Charge(CocOutcomes(log_branch), o)
       /\ LET r == checkout_or_create_branch_FromMain(log_branch, o)
          IN /\ heads' = r.heads
             /\ HEAD' = r.HEAD
             /\ tip' = r.tip
             /\ IF r.exc = "none"
                THEN Step("logs_exists", By("logs", r.evs), {})
                ELSE Raise("logs", r.exc, By("logs", r.evs))
  /\ Record("logs")
  /\ UNCHANGED << remotes, commits, index, refs, originHeads, envVars,
                  fileVars, run, today, branch_name, file_path, disk, wcontent, wdone >>

\* self._checkout_or_create_branch(self.config.log_branch)
LogsCheckout ==
  /\ pc = "logs_checkout"
  /\ \E o \in Choices(CocOutcomes(log_branch)) :
       /\ Charge(CocOutcomes(log_branch), o)
       /\ LET r == checkout_or_create_branch(log_branch, o)
          IN /\ heads' = r.heads
             /\ HEAD' = r.HEAD
             /\ tip' = r.tip
             /\ IF r.exc = "none"
                THEN Step("logs_exists", By("logs", r.evs), {})
                ELSE Raise("logs", r.exc, By("logs", r.evs))
  /\ Record("logs")
  /\ UNCHANGED << remotes, commits, index, refs, originHeads, envVars,
                  fileVars, run, today, branch_name, file_path, disk, wcontent, wdone >>

\* if not os.path.exists(logs_dir): logger.info("No logs to push."); return
LogsExists ==
  /\ pc = "logs_exists"
  /\ IF logsDir
     THEN Step("logs_add", << >>, {})
     ELSE Return("logs", << >>, { << "info", "No logs to push" >> })
  /\ UNCHANGED << gitVars, envVars, fileVars, faults, run, today, branch_name, file_path, auxVars >>

\* The directory setup_logger created is removed from outside during the run.
LogsRemoved ==
  /\ pc = "logs_exists"
  /\ logsDir
  /\ faults < MaxFaults
  /\ faults' = faults + 1
  /\ logsDir' = FALSE
  /\ UNCHANGED << gitVars, fork_path, repo_url_alt, enable_log_branch, upstreamMain,
                  fileVars, procVars, obsVars, auxVars >>

\* self.repo.index.add([rel_logs_dir])
LogsAdd ==
  /\ pc = "logs_add"
  /\ \E o \in Choices({"ok", "OSError"}) :
       /\ Charge({"ok", "OSError"}, o)
       /\ LET path == relpath(logs_dir, working_tree_dir)
              ev == << Ev("logs", "add", path, o) >>
          IN IF o = "ok"
             THEN /\ IndexAdd(path)
                  /\ Step("logs_commit", ev, {})
             ELSE /\ Raise("logs", o, ev)
                  /\ UNCHANGED index
  /\ UNCHANGED << remotes, heads, HEAD, tip, commits, refs, originHeads, envVars,
                  fileVars, run, today, branch_name, file_path, auxVars >>

\* self.repo.index.commit("chore: update logs ...")
LogsCommit ==
  /\ pc = "logs_commit"
  /\ \E o \in Choices({"ok", "HookExecutionError"}) :
       /\ Charge({"ok", "HookExecutionError"}, o)
       /\ LET ev == << Ev("logs", "commit", HEAD, o) >>
          IN IF o = "ok"
             THEN /\ IndexCommit
                  /\ Step("logs_remote", ev, {})
             ELSE /\ Raise("logs", o, ev)
                  /\ UNCHANGED << tip, commits, index >>
  /\ UNCHANGED << remotes, heads, HEAD, refs, originHeads, envVars,
                  fileVars, run, today, branch_name, file_path, auxVars >>

\* origin = self.repo.remote("origin")
LogsRemote ==
  /\ pc = "logs_remote"
  /\ IF "origin" \in remotes
     THEN Step("logs_push", << Ev("logs", "remote", "origin", "ok") >>, {})
     ELSE Raise("logs", "ValueError", << Ev("logs", "remote", "origin", "ValueError") >>)
  /\ UNCHANGED << gitVars, envVars, fileVars, faults, run, today, branch_name, file_path, auxVars >>

\* origin.push(branch_name); logger.info(...)
LogsPush ==
  /\ pc = "logs_push"
  /\ \E o \in Choices(PushOutcomes(log_branch)) :
       /\ Charge(PushOutcomes(log_branch), o)
       /\ LET ev == << Ev("logs", "push", log_branch, o) >>
          IN CASE o = "ok" ->
                    /\ PushAccepted(log_branch)
                    /\ Return("logs", ev, { << "info", "Logs pushed" >> })
               [] o = "rejected" ->
                    /\ UNCHANGED originHeads
                    /\ Return("logs", ev, { << "info", "Logs pushed" >> })
               [] OTHER ->
                    /\ UNCHANGED originHeads
                    /\ Raise("logs", o, ev)
  /\ UNCHANGED << remotes, heads, HEAD, tip, commits, index, refs, envVars,
                  fileVars, run, today, branch_name, file_path, auxVars >>

\* ---------------------------------------------------------- specification

Next ==
  \/ Construct
  \/ SyncRemote \/ SyncFetch \/ SyncResolve \/ SyncPull
  \/ GenDigest \/ GenSidecar
  \/ CpCheckout \/ CpAdd \/ CpCommit \/ CpRemote \/ CpPush
  \/ LogsCheckout \/ LogsExists \/ LogsRemoved \/ LogsAdd \/ LogsCommit
  \/ LogsRemote \/ LogsPush
  \/ Finish
  \/ StartRun

Spec == Init /\ [][Next]_vars

\* ----------------------------------- _checkout_or_create_branch called twice

\* The fixed part of the state of the specifications of one function.
InitRest ==
  /\ fork_path = "repo"
  /\ repo_url_alt = TRUE
  /\ enable_log_branch = FALSE
  /\ upstreamMain = 0
  /\ remotes = {"origin"}
  /\ commits = << [parents |-> {}, paths |-> { << "README.md" >> }],
                  [parents |-> {1}, paths |-> { << "CHANGES.md" >> }] >>
  /\ index = {}
  /\ refs = [r \in {} |-> 0]
  /\ originHeads = [h \in {} |-> 0]
  /\ digests = {}
  /\ sidecar = ""
  /\ logsDir = TRUE
  /\ faults = 0
  /\ InitRun

BranchNames == {main_branch, DefaultBranch, log_branch} \cup FeatureBranches

\* Any working copy: some branches, one of them checked out, each at a commit.
InitCheckout ==
  /\ InitRest
  /\ heads \in SUBSET BranchNames
  /\ heads # {}
  /\ HEAD \in heads
  /\ tip \in [heads -> 1..2]
  /\ pc = "coc_first"
  /\ InitAux

\* self._checkout_or_create_branch(x), the first call; an exception ends the
\* sequence of the two calls.
CocFirst ==
  /\ pc = "coc_first"
  /\ \E x \in BranchNames : \E o \in CocOutcomes(x) :
       LET r == checkout_or_create_branch(x, o)
       IN /\ branch_name' = x
          /\ heads' = r.heads
          /\ HEAD' = r.HEAD
          /\ tip' = r.tip
          /\ trace' = By("first", r.evs)
          /\ pc' = IF r.exc = "none" THEN "coc_second" ELSE "coc_raised"
          /\ snap' = [taken |-> TRUE, heads |-> r.heads, HEAD |-> r.HEAD, tip |-> r.tip]
  /\ UNCHANGED << remotes, commits, index, refs, originHeads, envVars, fileVars,
                  faults, run, today, exitCode, file_path, logged, disk, wcontent, wdone >>

\* self._checkout_or_create_branch(x), the second call
CocSecond ==
  /\ pc = "coc_second"
  /\ \E o \in CocOutcomes(branch_name) :
       LET r == checkout_or_create_branch(branch_name, o)
       IN /\ heads' = r.heads
          /\ HEAD' = r.HEAD
          /\ tip' = r.tip
          /\ trace' = trace \o By("second", r.evs)
          /\ pc' = "coc_done"
  /\ UNCHANGED << remotes, commits, index, refs, originHeads, envVars, fileVars,
                  faults, run, today, exitCode, branch_name, file_path, logged, auxVars >>

CheckoutNext == CocFirst \/ CocSecond

CheckoutSpec == InitCheckout /\ [][CheckoutNext]_vars

\* ---------------------------------------------------------- write_text_file

\* The files generate_daily_content writes with write_text_file.
WrittenPaths ==
  { working_tree_dir \o << news_dir, digest_filename_for_date(Calendar[i]) >> : i \in Days }
    \cup { working_tree_dir \o << "branch_name.txt" >> }

\* A content is one to MaxChunks chunks, each one of two texts.
Contents == UNION { [1..n -> {"a", "b"}] : n \in 1..MaxChunks }

\* Mutant: the content is written to the target itself.
tmp_path_InPlace(path) == path

\* tmp_path = path.with_suffix(path.suffix + ".tmp")
tmp_path(path) == [path EXCEPT ![Len(path)] = @ \o ".tmp"]

InitWrite ==
  /\ InitRest
  /\ heads = {main_branch}
  /\ HEAD = main_branch
  /\ tip = [h \in {main_branch} |-> 1]
  /\ pc = "w_idle"
  /\ InitAux

writeFrame == << gitVars, envVars, fileVars, faults, today, exitCode, branch_name, obsVars >>

\* write_text_file(path, content) is called; a later call is a later run.
WriteCall ==
  /\ \/ pc = "w_idle" /\ run' = run
     \/ pc \in {"w_done", "w_interrupted"} /\ run < MaxRuns /\ run' = run + 1
  /\ \E path \in WrittenPaths : \E content \in Contents :
       /\ file_path' = path
       /\ wcontent' = content
       /\ snap' = [taken |-> TRUE, had |-> path \in DOMAIN disk,
                   content |-> IF path \in DOMAIN disk THEN disk[path] ELSE << >>]
  /\ wdone' = 0
  /\ pc' = "w_open"
  /\ UNCHANGED << disk, writeFrame >>

\* tmp_path.open("w"): the temporary file is created, or emptied
WriteOpen ==
  /\ pc = "w_open"
  /\ disk' = [q \in DOMAIN disk \cup {tmp_path(file_path)} |->
                IF q = tmp_path(file_path) THEN << >> ELSE disk[q]]
  /\ pc' = "w_write"
  /\ UNCHANGED << run, file_path, wcontent, wdone, snap, writeFrame >>

\* f.write(content), which reaches the file chunk by chunk; the file is closed
WriteChunk ==
  /\ pc = "w_write"
  /\ IF wdone < Len(wcontent)
     THEN /\ disk' = [disk EXCEPT ![tmp_path(file_path)] = Append(@, wcontent[wdone + 1])]
          /\ wdone' = wdone + 1
          /\ pc' = pc
     ELSE /\ pc' = "w_replace"
          /\ UNCHANGED << disk, wdone >>
  /\ UNCHANGED << run, file_path, wcontent, snap, writeFrame >>

\* tmp_path.replace(path): one rename
WriteReplace ==
  /\ pc = "w_replace"
  /\ disk' = [q \in (DOMAIN disk \cup {file_path}) \ ({tmp_path(file_path)} \ {file_path}) |->
                IF q = file_path THEN disk[tmp_path(file_path)] ELSE disk[q]]
  /\ pc' = "w_done"
  /\ UNCHANGED << run, file_path, wcontent, wdone, snap, writeFrame >>

\* The call is interrupted (the process is killed, or a step raises).
WriteInterrupted ==
  /\ pc \in {"w_open", "w_write", "w_replace"}
  /\ pc' = "w_interrupted"
  /\ UNCHANGED << disk, run, file_path, wcontent, wdone, snap, writeFrame >>

WriteNext == WriteCall \/ WriteOpen \/ WriteChunk \/ WriteReplace \/ WriteInterrupted

WriteSpec == InitWrite /\ [][WriteNext]_vars

\* ------------------------------------ generate_daily_content, date by date

\* d = d or date.today(): generate_daily_content is called for any date of the
\* calendar, again and again on the same working copy.
NameCall ==
  /\ \/ pc = "n_call" /\ run' = run
     \/ pc \in {"cp_checkout", "exit"} /\ run <= MaxRuns /\ run' = run + 1
  /\ today' \in 1..Len(Calendar)
  /\ snap' = [taken |-> pc # "n_call", today |-> today, branch_name |-> branch_name,
              file_path |-> file_path, digests |-> digests]
  /\ pc' = "gen_digest"
  /\ exitCode' = Running
  /\ trace' = << >>
  /\ logged' = {}
  /\ UNCHANGED << gitVars, envVars, fileVars, faults, branch_name, file_path,
                  disk, wcontent, wdone >>

InitNaming ==
  /\ InitRest
  /\ heads = {main_branch}
  /\ HEAD = main_branch
  /\ tip = [h \in {main_branch} |-> 1]
  /\ pc = "n_call"
  /\ InitAux

NamingNext == NameCall \/ GenDigest \/ GenSidecar

NamingSpec == InitNaming /\ [][NamingNext]_vars

\* ------------------------------------------------------ reading the trace

Ops(by) == SelectSeq(trace, LAMBDA e : e.by = by)

\* A component performed operation op with result res.
Did(by, op, res) == \E i \in 1..Len(trace) :
  trace[i].by = by /\ trace[i].op = op /\ trace[i].res = res

Returned(by) == Did(by, "return", "ok")

Raised(by) == \E i \in 1..Len(trace) : trace[i].by = by /\ trace[i].op = "raise"

\* An operation of the component did not succeed.
Failed(by) == \E i \in 1..Len(trace) :
  trace[i].by = by /\ trace[i].op \notin {"return", "raise"} /\ trace[i].res # "ok"

\* Event i of the trace comes after a normal return of component by.
After(by, i) == \E j \in 1..(i - 1) :
  trace[j].by = by /\ trace[j].op = "return" /\ trace[j].res = "ok"

Today == Calendar[today]

SidecarPath == << "branch_name.txt" >>

\* ------------------------------------------------------------------ claims

\* C1: sync_with_upstream never raises: whatever fails in it (remote creation
\* with or without a URL, fetch, checkout, pull), a warning is logged and the
\* call returns normally, so the run goes on to generation.
C1_SyncNeverRaises ==
  /\ ~ Raised("sync")
  /\ Failed("sync") =>
       /\ << "warning", "Could not fully sync with upstream" >> \in logged
       /\ Returned("sync")

\* C2: a failure of any step of commit_and_push (checkout-or-create, stage,
\* commit, origin lookup, push) is raised to main: the run exits non-zero, the
\* Log Archiver is not run and the run is not reported as finished.
C2_PublishFailurePropagates ==
  Failed("publish") =>
    /\ Raised("publish")
    /\ pc = "exit" /\ exitCode = 1
    /\ Ops("logs") = << >>
    /\ << "info", "Workflow finished successfully" >> \notin logged

\* C3: the Log Archiver never affects the outcome: it never raises, and a run
\* whose publish returned normally ends with exit code 0, whether archival is
\* disabled, succeeds or fails at any of its steps.
C3_ArchiverNeverAffectsOutcome ==
  /\ ~ Raised("logs")
  /\ exitCode = 1 => ~ Returned("publish")
  /\ (pc = "exit" /\ Returned("publish")) => exitCode = 0

\* C3 witness: a finished run in which a step of the archiver failed.
C3_Witness ==
  /\ pc = "exit" /\ exitCode = 0
  /\ Returned("publish")
  /\ Did("logs", "remote", "ValueError") \/ Did("logs", "commit", "HookExecutionError")

\* C4: run ordering: generation starts only after sync has returned, no publish
\* step happens before generation has returned, and the Log Archiver runs only
\* after publish has returned and only when enable_log_branch is true.
C4_RunOrdering ==
  /\ \A i \in 1..Len(trace) :
       /\ trace[i].by = "gen" => After("sync", i)
       /\ trace[i].by = "publish" => After("gen", i)
       /\ trace[i].by = "logs" => After("publish", i) /\ enable_log_branch
  /\ pc \in {"gen_digest", "gen_sidecar"} => Returned("sync")
  /\ pc \in {"cp_checkout", "cp_add", "cp_commit", "cp_remote", "cp_push"} =>
       Returned("sync") /\ Returned("gen")
  /\ pc \in {"logs_checkout", "logs_exists", "logs_add", "logs_commit",
             "logs_remote", "logs_push"} =>
       Returned("gen") /\ Returned("publish") /\ enable_log_branch

\* C4 witness: a run that went through sync, generation, publish and the archiver.
C4_Witness ==
  /\ pc = "exit" /\ exitCode = 0
  /\ Did("sync", "pull", "ok")
  /\ Did("publish", "push", "ok")
  /\ Did("logs", "push", "ok")

\* The operations of commit_and_push in the order of its statements.
PublishOrder == << "checkout", "add", "commit", "remote", "push", "return" >>

\* The operations commit_and_push performed, creation of the branch left out.
PublishOps == SelectSeq(Ops("publish"), LAMBDA e : e.op # "create_head")

\* C5: the publish steps occur in the order checkout, stage, commit, origin
\* lookup, push, none skipped; the digest is staged and committed while HEAD is
\* the feature branch, and the branch pushed is the one that got the commit.
C5_PublishOrder ==
  LET ops == PublishOps
  IN /\ \A i \in 1..Len(ops) :
          \/ i <= Len(PublishOrder) /\ ops[i].op = PublishOrder[i]
          \/ i = Len(ops) /\ ops[i].op = "raise"
     /\ \A i \in 1..Len(ops) :
          /\ ops[i].op = "checkout" => ops[i].arg = branch_name
          /\ ops[i].op = "add" => ops[i].arg = relpath(file_path, working_tree_dir)
          /\ ops[i].op = "commit" => ops[i].arg = branch_name
          /\ ops[i].op = "push" =>
               /\ ops[i].arg = branch_name
               /\ i > 2
               /\ ops[i - 1].op = "remote" /\ ops[i - 1].res = "ok"
               /\ ops[i - 2].op = "commit" /\ ops[i - 2].res = "ok"
               /\ ops[i - 2].arg = ops[i].arg
     /\ pc \in {"cp_add", "cp_commit"} => HEAD = branch_name

\* C5 witness: commit_and_push went through all its steps.
C5_Witness ==
  /\ Len(PublishOps) = Len(PublishOrder)
  /\ Did("publish", "push", "ok")

\* The first run, on a clean working copy with an origin and no local main.
FreshStart ==
  /\ run = 1
  /\ "origin" \in remotes
  /\ DefaultBranch \in heads

\* A run that went through publish with no failing publish step, archival off.
FullRunNoArchive ==
  /\ pc = "exit"
  /\ ~ enable_log_branch
  /\ Returned("publish")
  /\ ~ Failed("publish")

DigestPath == << news_dir, digest_filename_for_date(Today) >>

\* The run's feature branch is the one branch origin gained, and the commit at
\* its tip adds the digest of the day and nothing else.
OneNewOriginBranch ==
  LET fb == branch_name_for_date(Today)
  IN /\ DOMAIN originHeads = {DefaultBranch, fb}
     /\ commits[originHeads[fb]].paths = {DigestPath}
     /\ \A p \in commits[originHeads[fb]].parents : DigestPath \notin PathsOf(p)

\* C6 as stated: from a clean working copy with a valid origin and no local
\* main, a full run with archival disabled and no failing publish step leaves
\* exactly one new branch feature/news-<today> on origin, its new commit adding
\* digest_<today>.md, and branch_name.txt equal to feature/news-<today>.
C6_EndToEnd ==
  (FreshStart /\ FullRunNoArchive) =>
     /\ OneNewOriginBranch
     /\ sidecar = branch_name_for_date(Today)

\* C6 amended: the same, with branch_name.txt equal to feature/news-<today>
\* when its write succeeded and absent when its write failed (the failure is
\* logged and the run publishes all the same).
C6_EndToEndAmended ==
  (FreshStart /\ FullRunNoArchive) =>
     /\ OneNewOriginBranch
     /\ sidecar = IF Did("gen", "write_sidecar", "ok")
                  THEN branch_name_for_date(Today) ELSE ""

\* C6 witness: such a run, after a sync that failed.
C6_Witness ==
  /\ FreshStart /\ FullRunNoArchive
  /\ Failed("sync")
  /\ sidecar = branch_name_for_date(Today)

\* The commit origin holds for the run's feature branch.
PushedCommit == commits[originHeads[branch_name]]

\* C7 as stated: the commit pushed by a successful run contains exactly the new
\* digest file and the update of branch_name.txt, both staged and committed.
C7_CommitHasDigestAndSidecar ==
  Did("publish", "push", "ok") => PushedCommit.paths = {DigestPath, SidecarPath}

\* C7 amended: the commit pushed by a successful run contains the digest of the
\* run date, the only path the run stages; branch_name.txt is written to the
\* working copy but never staged or committed; on a clean working copy (the
\* first run) the digest is the one file of the commit and it is new.
C7_CommitHasDigestOnly ==
  /\ \A i \in 1..Len(trace) :
       (trace[i].by = "publish" /\ trace[i].op = "add") => trace[i].arg = DigestPath
  /\ SidecarPath \notin index
  /\ \A c \in 1..Len(commits) : SidecarPath \notin commits[c].paths
  /\ Did("publish", "push", "ok") =>
       /\ DigestPath \in PushedCommit.paths
       /\ run = 1 =>
            /\ PushedCommit.paths = {DigestPath}
            /\ \A p \in PushedCommit.parents : DigestPath \notin PathsOf(p)

\* C7 witness: a run pushed its commit while branch_name.txt was written.
C7_Witness ==
  /\ Did("publish", "push", "ok")
  /\ Did("gen", "write_sidecar", "ok")
  /\ sidecar = branch_name

\* C8 as stated: at the end of every run that pushed a feature branch,
\* branch_name.txt holds the name of the branch pushed, also when the sidecar
\* write failed.
C8_SidecarIsPushedBranch ==
  (pc = "exit" /\ Did("publish", "push", "ok")) => sidecar = branch_name

\* C8 amended: at the end of every run that pushed a feature branch and whose
\* write of branch_name.txt succeeded, the file holds the name of the branch
\* pushed by that run.
C8_SidecarIsPushedBranchIfWritten ==
  (pc = "exit" /\ Did("publish", "push", "ok") /\ Did("gen", "write_sidecar", "ok")) =>
     sidecar = branch_name

\* C8 witness: a second run, on a later day, replaced the name the first wrote.
C8_Witness ==
  /\ pc = "exit" /\ run = 2 /\ today = 2
  /\ Did("publish", "push", "ok")
  /\ Did("gen", "write_sidecar", "ok")
  /\ branch_name_for_date(Calendar[1]) \in DOMAIN originHeads
  /\ sidecar = branch_name_for_date(Calendar[2])

\* C9: check-out-or-create is idempotent: after _checkout_or_create_branch(X)
\* has returned, X is a local branch and HEAD is on it, and calling it again
\* creates no branch, moves no branch and leaves HEAD on X.
C9_CheckoutIdempotent ==
  /\ pc \in {"coc_second", "coc_done"} =>
       /\ branch_name \in heads
       /\ HEAD = branch_name
  /\ pc = "coc_done" =>
       /\ heads = snap.heads
       /\ tip = snap.tip
       /\ HEAD = snap.HEAD
       /\ \A i \in 1..Len(trace) :
            trace[i].by = "second" => trace[i].op = "checkout"

\* C9 witness: the first call created X from another branch, the second ran.
C9_Witness ==
  /\ pc = "coc_done"
  /\ Did("first", "create_head", "ok")
  /\ Did("second", "checkout", "ok")
  /\ Cardinality(heads) > 1

\* C10: atomic write: whenever write_text_file stops, and at every point of it,
\* the target does not exist or holds the complete prior content or the
\* complete new content, never a part of one.
C10_AtomicWrite ==
  snap.taken =>
    /\ \/ file_path \notin DOMAIN disk
       \/ snap.had /\ disk[file_path] = snap.content
       \/ disk[file_path] = wcontent
    /\ pc \in {"w_open", "w_write", "w_replace", "w_interrupted"} =>
         IF snap.had
         THEN file_path \in DOMAIN disk /\ disk[file_path] = snap.content
         ELSE file_path \notin DOMAIN disk
    /\ pc = "w_done" => file_path \in DOMAIN disk /\ disk[file_path] = wcontent

\* C10 witness: a write over a different prior content was interrupted with a
\* part of the new content in the temporary file.
C10_Witness ==
  /\ pc = "w_interrupted"
  /\ snap.taken /\ snap.had
  /\ snap.content # wcontent
  /\ Len(wcontent) > 1
  /\ wdone = 1
  /\ disk[file_path] = snap.content
  /\ disk[tmp_path(file_path)] = << wcontent[1] >>

\* The eight digits YYYYMMDD of a date, read as one number.
DateCode(d) == ToString(d.y * 10000 + d.m * 100 + d.d)

\* C11: naming is a function of the date alone and one-to-one: the branch name
\* is "feature/news-" and the digest file name "digest_" ... ".md" around the
\* zero-padded YYYYMMDD of the date; a second generation for the same date
\* gives the same branch name and file path and adds no file, and two different
\* dates never give the same branch name or file name.
C11_NamingOneToOne ==
  /\ \A i, j \in 1..Len(Calendar) :
       /\ branch_name_for_date(Calendar[i]) = "feature/news-" \o DateCode(Calendar[i])
       /\ digest_filename_for_date(Calendar[i]) = "digest_" \o DateCode(Calendar[i]) \o ".md"
       /\ i # j => /\ branch_name_for_date(Calendar[i]) # branch_name_for_date(Calendar[j])
                   /\ digest_filename_for_date(Calendar[i]) # digest_filename_for_date(Calendar[j])
  /\ pc \in {"gen_sidecar", "cp_checkout"} =>
       /\ branch_name = "feature/news-" \o DateCode(Today)
       /\ file_path = working_tree_dir \o << news_dir, "digest_" \o DateCode(Today) \o ".md" >>
       /\ file_path[Len(file_path)] \in digests
       /\ snap.taken /\ snap.branch_name # "" =>
            /\ snap.today = today <=> snap.branch_name = branch_name
            /\ snap.today = today <=> snap.file_path = file_path
            /\ (snap.today = today /\ file_path[Len(file_path)] \in snap.digests) =>
                 digests = snap.digests

\* C11 witness: the digest of one date was generated a second time, after the
\* digest of another date, and the working copy holds one file for each date.
C11_Witness ==
  /\ pc = "cp_checkout"
  /\ snap.taken
  /\ snap.today = today
  /\ snap.branch_name = branch_name
  /\ snap.file_path = file_path
  /\ snap.digests = digests
  /\ Cardinality(digests) = 2

\* C12: a missing or invalid working-copy path is fatal at startup: the run
\* raises from the construction of GitManager and exits non-zero, with no git
\* operation performed and no file written.
C12_BadPathFatalAtStartup ==
  fork_path # "repo" =>
    /\ pc \in {"init", "exit"}
    /\ \A i \in 1..Len(trace) : trace[i].by = "init" /\ trace[i].op = "raise"
    /\ pc = "exit" => exitCode = 1
    /\ digests = {} /\ sidecar = ""

\* Sync found no upstream remote and had no URL to create it from.
SyncWithoutUrl ==
  /\ ~ repo_url_alt
  /\ \E i \in 1..Len(trace) : trace[i].by = "sync" /\ trace[i].op = "create_remote"

\* C13: when the upstream remote is absent and no upstream URL is available,
\* sync logs a warning and returns early: no remote is created, no fetch,
\* checkout, branch creation or pull is performed, and the run goes on to
\* generation and publish.
C13_NoUrlSyncWarnsAndSkips ==
  SyncWithoutUrl =>
    /\ remote_upstream \notin remotes
    /\ \A i \in 1..Len(trace) :
         trace[i].by = "sync" => trace[i].op \in {"create_remote", "return"}
    /\ << "warning", "Could not fully sync with upstream" >> \in logged
    /\ Returned("sync")
    /\ pc = "exit" => Did("gen", "write_digest", "ok") \/ Failed("gen") \/ Raised("gen")

\* The operations by which sync resolved local main, and its pulls.
ResolveOps ==
  SelectSeq(trace, LAMBDA e : e.by = "sync" /\ e.op \in {"checkout", "checkout_b", "create_head"})

Pulls == SelectSeq(trace, LAMBDA e : e.by = "sync" /\ e.op = "pull")

ResolveSucceeded ==
  /\ ResolveOps # << >>
  /\ \A i \in 1..Len(ResolveOps) : ResolveOps[i].res = "ok"
  /\ ResolveOps[Len(ResolveOps)].op \in {"checkout", "checkout_b"}

\* C14: mainline resolution after a successful fetch: a local main is checked
\* out and no branch is created; else, if <upstream>/main exists, local main is
\* created from it; else main is created from the current HEAD and a warning
\* is logged.  In each case HEAD is on main before the pull, and the pull of
\* <upstream> main is attempted exactly once.
C14_MainlineResolution ==
  Recorded("resolve") =>
    LET R == snap.shots["resolve"]
        ops == ResolveOps
        hadMain == main_branch \in R.heads
        hadRef == UpstreamMainRef \in DOMAIN R.refs
        grown == [h \in R.heads \cup {main_branch} |->
                    IF h # main_branch THEN R.tip[h]
                    ELSE IF hadRef THEN R.refs[UpstreamMainRef] ELSE R.tip[R.HEAD]]
    IN /\ Len(ops) >= 1
       /\ hadMain =>
            /\ Len(ops) = 1
            /\ ops[1].op = "checkout" /\ ops[1].arg = main_branch
       /\ (~ hadMain /\ hadRef) =>
            /\ Len(ops) = 1
            /\ ops[1].op = "checkout_b" /\ ops[1].arg = UpstreamMainRef
       /\ (~ hadMain /\ ~ hadRef) =>
            /\ Len(ops) <= 2
            /\ ops[1].op = "create_head" /\ ops[1].arg = main_branch
            /\ Len(ops) = 2 => ops[2].op = "checkout" /\ ops[2].arg = main_branch
       /\ << "warning", "Created 'main' from current HEAD" >> \in logged
            <=> (~ hadMain /\ ~ hadRef /\ ResolveSucceeded)
       /\ pc = "sync_pull" =>
            /\ ResolveSucceeded
            /\ HEAD = main_branch
            /\ Len(Pulls) = 0
            /\ hadMain => heads = R.heads /\ tip = R.tip
            /\ ~ hadMain => heads = R.heads \cup {main_branch} /\ tip = grown
       /\ Len(Pulls) <= 1
       /\ Len(Pulls) = 1 <=> (ResolveSucceeded /\ pc # "sync_pull")
       /\ \A i \in 1..Len(Pulls) : Pulls[i].arg = main_branch

\* C14 witness: local main was created from <upstream>/main and the pull ran.
C14_Witness ==
  /\ Recorded("resolve")
  /\ main_branch \notin snap.shots["resolve"].heads
  /\ Did("sync", "checkout_b", "ok")
  /\ Did("sync", "pull", "ok")
  /\ pc = "gen_digest"
  /\ HEAD = main_branch
  /\ tip[main_branch] = upstreamMain

\* The branches, their tips and HEAD are as recorded in shot S.
SameBranches(S) == heads = S.heads /\ HEAD = S.HEAD /\ tip = S.tip

\* C15: if the fetch of the upstream remote fails, sync ends there with its
\* warning: it performs no checkout, no branch creation and no pull, so HEAD
\* and the local branches are as they were before sync; only the upstream
\* remote may have been added.
C15_FetchFailureFrame ==
  (\E i \in 1..Len(trace) :
      trace[i].by = "sync" /\ trace[i].op = "fetch" /\ trace[i].res # "ok") =>
    LET S == snap.shots["sync"]
    IN /\ \A i \in 1..Len(trace) :
            trace[i].by = "sync" => trace[i].op \in {"create_remote", "fetch", "return"}
       /\ Returned("sync")
       /\ << "warning", "Could not fully sync with upstream" >> \in logged
       /\ pc \in {"gen_digest", "gen_sidecar", "cp_checkout"} =>
            /\ SameBranches(S)
            /\ refs = S.refs /\ index = S.index /\ originHeads = S.originHeads
            /\ Len(commits) = S.ncommits
            /\ remotes \in {S.remotes, S.remotes \cup {remote_upstream}}
       /\ Recorded("publish") =>
            /\ snap.shots["publish"].heads = S.heads
            /\ snap.shots["publish"].HEAD = S.HEAD
            /\ snap.shots["publish"].tip = S.tip

\* C15 witness: sync added the upstream remote, its fetch failed, and the run
\* is at generation on a working copy with no local main.
C15_Witness ==
  /\ pc = "gen_digest"
  /\ Did("sync", "create_remote", "ok")
  /\ Did("sync", "fetch", "GitCommandError")
  /\ remote_upstream \in remotes
  /\ remote_upstream \notin snap.shots["sync"].remotes
  /\ main_branch \notin heads

\* The Log Archiver found no logs directory.
NoLogsToPush == << "info", "No logs to push" >> \in logged

\* C16: when the logs directory does not exist, the Log Archiver is a no-op:
\* the repository is as it was when the archiver started, with no branch
\* created, HEAD not moved, and nothing staged, committed or pushed.
C16_NoLogsDirNoOp ==
  NoLogsToPush =>
    LET L == snap.shots["logs"]
    IN /\ SameBranches(L)
       /\ index = L.index
       /\ Len(commits) = L.ncommits
       /\ originHeads = L.originHeads
       /\ \A i \in 1..Len(trace) : trace[i].by = "logs" => trace[i].op = "return"

\* C17: in generate_daily_content a failed write of the digest is fatal: it is
\* raised, no publish step is performed and the run exits non-zero; a failed
\* write of branch_name.txt is logged and not fatal: the call returns
\* (branch_name, file_path) and the run goes on to publish.
C17_DigestFatalSidecarNot ==
  /\ Did("gen", "write_digest", "OSError") =>
       /\ Raised("gen")
       /\ << "exception", "Failed to write digest file" >> \in logged
       /\ Ops("publish") = << >> /\ Ops("logs") = << >>
       /\ ~ \E i \in 1..Len(trace) : trace[i].op = "write_sidecar"
       /\ pc = "exit" /\ exitCode = 1
       /\ << "info", "Workflow finished successfully" >> \notin logged
  /\ Did("gen", "write_sidecar", "OSError") =>
       /\ Did("gen", "write_digest", "ok")
       /\ ~ Raised("gen") /\ Returned("gen")
       /\ << "exception", "Could not persist branch_name.txt" >> \in logged
       /\ branch_name = branch_name_for_date(Today)
       /\ file_path = working_tree_dir \o DigestPath
       /\ pc # "cp_checkout" => Ops("publish") # << >>
       /\ \A i \in 1..Len(trace) :
            (trace[i].by = "publish" /\ trace[i].op \in {"checkout", "create_head", "push"})
              => trace[i].arg = branch_name_for_date(Today)

\* C17 witness: the write of branch_name.txt failed and the run published.
C17_Witness ==
  /\ Did("gen", "write_sidecar", "OSError")
  /\ Did("publish", "push", "ok")
  /\ pc = "exit" /\ exitCode = 0
  /\ branch_name \in DOMAIN originHeads

\* The commit the run's feature branch was created at, once publish created it.
FeatureBase ==
  IF Did("publish", "commit", "ok")
  THEN CHOOSE c \in commits[tip[branch_name]].parents : TRUE
  ELSE tip[branch_name]

\* C18: publish never checks out main: it creates a missing feature branch
\* from HEAD as it is when commit_and_push starts.  So the new branch starts
\* at local main's tip when sync resolved main, and at the branch the
\* previous run left checked out when sync failed before that.
C18_FeatureBranchBase ==
  /\ \A i \in 1..Len(trace) :
       (trace[i].by = "publish" /\ trace[i].op \in {"checkout", "checkout_b", "create_head"})
         => trace[i].arg = branch_name /\ trace[i].arg # main_branch
  /\ Did("publish", "create_head", "ok") =>
       LET P == snap.shots["publish"]
           S == snap.shots["sync"]
       IN /\ branch_name \notin P.heads
          /\ Did("publish", "commit", "ok") =>
               Cardinality(commits[tip[branch_name]].parents) = 1
          /\ FeatureBase = P.tip[P.HEAD]
          /\ ResolveSucceeded => P.HEAD = main_branch /\ FeatureBase = P.tip[main_branch]
          /\ ~ ResolveSucceeded =>
               /\ P.HEAD = S.HEAD
               /\ FeatureBase = S.tip[S.HEAD]

\* C18 witness: the previous run left HEAD on the log branch, sync failed at
\* fetch, and the feature branch of the day starts at the log branch's tip
\* although a local main exists at another commit.
C18_Witness ==
  /\ run = 2
  /\ pc = "cp_add"
  /\ Did("sync", "fetch", "GitCommandError")
  /\ Did("publish", "create_head", "ok")
  /\ snap.shots["sync"].HEAD = log_branch
  /\ tip[branch_name] = tip[log_branch]
  /\ main_branch \in heads
  /\ tip[main_branch] # tip[log_branch]

\* C19: with archival enabled and no log branch yet, the Log Archiver creates
\* the log branch at the tip of the feature branch just published, so the log
\* branch's history holds the run's digest commit; and whenever the archiver's
\* checkout-or-create succeeds, the run ends with HEAD on the log branch, not
\* on the feature branch or main.
C19_LogBranchFromFeature ==
  /\ Did("logs", "create_head", "ok") =>
       LET L == snap.shots["logs"]
       IN /\ enable_log_branch
          /\ log_branch \notin L.heads
          /\ L.HEAD = branch_name
          /\ L.tip[branch_name] = tip[branch_name]
          /\ DigestPath \in commits[tip[branch_name]].paths
          /\ tip[branch_name] \in Ancestors(tip[log_branch])
          /\ pc = "logs_exists" => tip[log_branch] = tip[branch_name]
          /\ DigestPath \in PathsOf(tip[log_branch])
  /\ Did("logs", "checkout", "ok") =>
       /\ HEAD = log_branch
       /\ HEAD \notin {branch_name, main_branch}
       /\ pc \in {"logs_exists", "logs_add", "logs_commit", "logs_remote", "logs_push",
                   "finish", "exit"}

\* C19 witness: a run ended on the log branch it created and pushed, while a
\* local main exists at a commit that does not hold the digest.
C19_Witness ==
  /\ pc = "exit" /\ exitCode = 0
  /\ Did("logs", "create_head", "ok")
  /\ Did("logs", "push", "ok")
  /\ HEAD = log_branch
  /\ log_branch \in DOMAIN originHeads
  /\ DigestPath \in PathsOf(originHeads[log_branch])
  /\ main_branch \in heads
  /\ DigestPath \notin PathsOf(tip[main_branch])

\* commit_and_push committed and then failed at the origin lookup or the push.
FailedAfterCommit ==
  /\ Did("publish", "commit", "ok")
  /\ \E i \in 1..Len(trace) :
       /\ trace[i].by = "publish"
       /\ trace[i].op \in {"remote", "push"}
       /\ trace[i].res # "ok"

\* C20: no rollback on publish failure: when commit_and_push fails at the
\* origin lookup or the push, after the commit succeeded, the local feature
\* branch keeps the new commit, HEAD stays on the feature branch and origin is
\* unchanged; branch creation, staging and commit are not undone.
C20_NoRollback ==
  FailedAfterCommit =>
    LET P == snap.shots["publish"]
    IN /\ branch_name \in heads
       /\ tip[branch_name] = P.ncommits + 1
       /\ tip[branch_name] <= Len(commits)
       /\ DigestPath \in commits[tip[branch_name]].paths
       /\ commits[tip[branch_name]].parents =
            { IF branch_name \in P.heads THEN P.tip[branch_name] ELSE P.tip[P.HEAD] }
       /\ DigestPath \notin index
       /\ branch_name \in DOMAIN originHeads <=> branch_name \in DOMAIN P.originHeads
       /\ branch_name \in DOMAIN originHeads =>
            originHeads[branch_name] = P.originHeads[branch_name]
       /\ Raised("publish") =>
            /\ HEAD = branch_name
            /\ originHeads = P.originHeads
            /\ Len(commits) = P.ncommits + 1
            /\ pc = "exit" /\ exitCode = 1

\* C20 witness: the push raised after the commit on a feature branch the call
\* had created; the branch holds the commit and origin does not have it.
C20_Witness ==
  /\ pc = "exit" /\ exitCode = 1
  /\ Did("publish", "create_head", "ok")
  /\ Did("publish", "commit", "ok")
  /\ Did("publish", "push", "GitCommandError")
  /\ HEAD = branch_name
  /\ tip[branch_name] = Len(commits)
  /\ branch_name \notin DOMAIN originHeads

====
